---- MODULE Spec2Model ----
(***************************************************************************)
(* Voice registration and selection state machine of tbot.py.              *)
(*                                                                         *)
(* Strings are sequences of characters; a character is a one-element atom   *)
(* written as a TLA+ string ("a", "!", ".").  The atom "U+00E9" stands for  *)
(* one non-ASCII letter.  Python dicts are functions whose DOMAIN is the    *)
(* set of keys present.  The voice directory is the sequence of its entries *)
(* in enumeration (iterdir) order.                                          *)
(*                                                                         *)
(* Application.builder().token(..).build() (tbot.py:242) leaves             *)
(* concurrent_updates off and every handler is registered blocking, so an   *)
(* update is handled to completion before the next one is dispatched: one   *)
(* action is one whole handler.                                             *)
(***************************************************************************)
EXTENDS Naturals, Sequences, FiniteSets, TLC

VARIABLES
    user_selected_voice,    \* tbot.py:31  {user_id: voice_name}
    awaiting_voice_upload,  \* tbot.py:32  {user_id: voice_name_to_save}
    dirState,               \* VOICE_DIR: "ok", "missing" or "noaccess"
    dirEntries,             \* VOICE_DIR's entries, in enumeration order
    ev,                     \* the update handled last (kind, user, the user's pending name before it)
    out,                    \* the reply sent for it (reply kind, voice named in it)
    san,                    \* one call of sanitize_voice_name: its argument and its result
    tasks,                  \* handle_audio coroutines in flight: where each one is suspended
    regs                    \* per user, how often tbot.py:117 has stored a pending name

vars == <<user_selected_voice, awaiting_voice_upload, dirState, dirEntries, ev, out,
          san, tasks, regs>>

\* what the handlers of Spec, which run one after the other, never touch
aux == <<san, tasks, regs>>

----------------------------------------------------------------------------
(* Bounds of the model *)

\* most entries the voice directory holds (a write that needs one more fails)
MaxEntries == 2

Users == {"u1", "u2"}

----------------------------------------------------------------------------
(* Constants of tbot.py *)

DEFAULT_VOICE_NAME == <<"d", "e", "f", "a", "u", "l", "t">>

CALLBACK_PREFIX_VOICE == <<"s", "e", "l", "e", "c", "t", "_", "v", "o", "i", "c", "e", ":">>

\* name[:50]
MAX_NAME_LEN == 50

DotWav == <<".", "w", "a", "v">>

----------------------------------------------------------------------------
(* Characters and strings *)

AsciiLower == {"a", "b", "c", "d", "e", "f", "g", "h", "i", "j", "k", "l", "m",
               "n", "o", "p", "q", "r", "s", "t", "u", "v", "w", "x", "y", "z"}

AsciiUpper == {"A", "B", "V", "W", "Z"}

AsciiDigits == {"0", "1", "2", "3", "4", "5", "6", "7", "8", "9"}

\* characters outside ASCII that Python's str pattern \w matches
UnicodeWord == {"U+00E9"}

\* \w of a str pattern: Unicode letters and digits, and the underscore
IsWordChar(c) == c \in AsciiLower \cup AsciiUpper \cup AsciiDigits \cup UnicodeWord \cup {"_"}

\* a mutant of KeptChar: \w as it is under re.ASCII
KeptCharAscii(c) == c \in AsciiLower \cup AsciiUpper \cup AsciiDigits \cup {"_", "-"}

\* the complement of [^\w\-]: what re.sub leaves in place
KeptChar(c) == IsWordChar(c) \/ c = "-"

\* str.lower() on one character
LowerChar(c) ==
    CASE c = "A" -> "a"
      [] c = "B" -> "b"
      [] c = "V" -> "v"
      [] c = "W" -> "w"
      [] c = "Z" -> "z"
      [] OTHER -> c

\* a mutant of Lower: the suffix is compared as it is
LowerIdentity(s) == s

Lower(s) == [i \in 1..Len(s) |-> LowerChar(s[i])]

\* a mutant of Take: the slice is left out
TakeAll(s, n) == s

Take(s, n) == SubSeq(s, 1, IF Len(s) < n THEN Len(s) ELSE n)

Range(s) == {s[i] : i \in 1..Len(s)}

StartsWith(s, prefix) ==
    /\ Len(prefix) <= Len(s)
    /\ SubSeq(s, 1, Len(prefix)) = prefix

\* a mutant of Falsy: the test "is None", which the empty string passes
FalsyOnlyNone(s) == FALSE

\* Python truthiness of a str: the empty string is falsy
Falsy(s) == s = <<>>

RECURSIVE Join(_)
\* " ".join(args)
Join(args) ==
    IF args = <<>> THEN <<>>
    ELSE IF Len(args) = 1 THEN args[1]
    ELSE args[1] \o <<" ">> \o Join(Tail(args))

\* re.sub(r'[^\w\-]', '', name)
StripChars(name) == SelectSeq(name, KeptChar)

sanitize_voice_name(name) == Take(StripChars(name), MAX_NAME_LEN)

----------------------------------------------------------------------------
(* pathlib on a file name *)

\* name.rfind('.'), 1-based, 0 when there is no dot
LastDot(name) ==
    LET dots == {i \in 1..Len(name) : name[i] = "."}
    IN  IF dots = {} THEN 0 ELSE CHOOSE i \in dots : \A j \in dots : j <= i

\* PurePath.suffix: from the last dot, unless the dot leads or ends the name
Suffix(name) ==
    LET i == LastDot(name)
    IN  IF 1 < i /\ i < Len(name) THEN SubSeq(name, i, Len(name)) ELSE <<>>

\* PurePath.stem
Stem(name) ==
    LET i == LastDot(name)
    IN  IF 1 < i /\ i < Len(name) THEN SubSeq(name, 1, i - 1) ELSE name

\* a mutant of WavFileName: the file is named after the codec of a voice note
OgaFileName(voice_name) == voice_name \o <<".", "o", "g", "a">>

\* f"{voice_name}.wav"
WavFileName(voice_name) == voice_name \o DotWav

----------------------------------------------------------------------------
(* The voice directory *)

File(name) == [name |-> name, isFile |-> TRUE]
Subdir(name) == [name |-> name, isFile |-> FALSE]

IndexOf(entries, name) ==
    LET hits == {i \in 1..Len(entries) : entries[i].name = name}
    IN  IF hits = {} THEN 0 ELSE CHOOSE i \in hits : TRUE

\* (VOICE_DIR / f"{voice_name}.wav").exists(): a file or a directory of that name
PathExists(st, entries, voice_name) ==
    /\ st # "missing"
    /\ IndexOf(entries, WavFileName(voice_name)) # 0

\* f.is_file() and f.suffix.lower() == ".wav"
IsVoiceFile(e) == e.isFile /\ Lower(Suffix(e.name)) = DotWav

\* a mutant of ListVoices: no exists() test and no except OSError, the entries
\* are listed whatever the state of the directory
ListVoicesUnguarded(st, entries) ==
    LET fs == SelectSeq(entries, IsVoiceFile)
    IN  [i \in 1..Len(fs) |-> Stem(fs[i].name)]

ListVoices(st, entries) ==
    IF st = "missing" THEN <<>>                 \* not VOICE_DIR.exists()
    ELSE IF st = "noaccess" THEN <<>>           \* iterdir raises OSError
    ELSE LET fs == SelectSeq(entries, IsVoiceFile)
         IN  [i \in 1..Len(fs) |-> Stem(fs[i].name)]

get_available_voices == ListVoices(dirState, dirEntries)

InsertAt(entries, i, e) ==
    SubSeq(entries, 1, i - 1) \o <<e>> \o SubSeq(entries, i, Len(entries))

\* VOICE_DIR.mkdir(parents=True, exist_ok=True)
Mkdir(st) == IF st = "missing" THEN "ok" ELSE st

----------------------------------------------------------------------------
(* Python dicts *)

EmptyDict == [k \in {} |-> <<>>]

\* a mutant of Put: d.setdefault(k, v), which keeps an entry already there
PutIfAbsent(d, k, v) == [x \in DOMAIN d \cup {k} |-> IF x \in DOMAIN d THEN d[x] ELSE v]

\* d[k] = v
Put(d, k, v) == [x \in DOMAIN d \cup {k} |-> IF x = k THEN v ELSE d[x]]

\* a mutant of Pop: the entry is read with get and never removed
PopKeepsEntry(d, k) == d

\* d.pop(k), the dict that is left
Pop(d, k) == [x \in DOMAIN d \ {k} |-> d[x]]

\* the pending name of user u, <<>> when there is none (a pending name is never empty)
PendingOf(u) == IF u \in DOMAIN awaiting_voice_upload THEN awaiting_voice_upload[u] ELSE <<>>

----------------------------------------------------------------------------
(* Inputs *)

\* a word longer than the name limit
LongToken == [i \in 1..(MAX_NAME_LEN + 1) |-> "a"]

\* context.args of a /newvoice update (it holds no empty word): no word, words
\* that sanitize to nothing, words that sanitize to "a", and a word cut to 50
ArgLists ==
    { <<>>,
      << <<"!">> >>,
      << <<"!">>, <<"!">> >>,
      << <<"a">> >>,
      << <<"a">>, <<"!">> >>,
      << LongToken >> }

\* callback data: the menu button of voice "a" (which may be in the catalog or
\* not, or no longer), a button carrying no name, and data of another kind
ButtonData == {CALLBACK_PREFIX_VOICE \o n : n \in {<<"a">>, <<>>}} \cup {<<"x">>}

\* update.message.document and its mime_type
MimeTypes == {"absent", "audio/wav", "text/plain"}

\* what the download does: "ok"; get_file raises; download_to_drive raises
\* before the target file is opened; it raises after the file was created
IoOutcomes == {"ok", "get_file_error", "download_error", "write_error"}

EntryPool ==
    { File(<<"a">> \o DotWav),
      File(<<"a", ".", "W", "A", "V">>),
      File(<<"a", ".", "t", "x", "t">>),
      Subdir(<<"a", "a">> \o DotWav) }

\* the directory when the bot starts: empty, or one entry
InitDirs == {<<>>} \cup {<<e>> : e \in EntryPool}

----------------------------------------------------------------------------
(* Initial state: both dicts empty (tbot.py:31-32); the directory is whatever
   the operator left there.  main() creates it (tbot.py:228), yet it can be
   removed or lose its permissions before the first update arrives, which is
   what get_available_voices guards against. *)

\* no call of sanitize_voice_name under observation
NoSan == [input |-> <<>>, done |-> FALSE, result |-> <<>>]

\* updates for handle_audio that the dispatcher may run as concurrent tasks
Tasks == {"t1", "t2"}

\* a handle_audio coroutine that has not been started
\* (seen: how many names had been stored for its user when it started)
NewTask ==
    [user |-> "none", pc |-> "new", popped |-> FALSE, voice_name |-> <<>>,
     reply |-> "none", seen |-> 0]

Init ==
    /\ san = NoSan
    /\ tasks = [t \in Tasks |-> NewTask]
    /\ regs = [u \in Users |-> 0]
    /\ user_selected_voice = EmptyDict
    /\ awaiting_voice_upload = EmptyDict
    /\ dirState \in {"ok", "missing", "noaccess"}
    /\ dirEntries \in InitDirs
    /\ dirState = "missing" => dirEntries = <<>>
    /\ ev = [kind |-> "none", user |-> "none", was |-> <<>>]
    /\ out = [reply |-> "none", voice |-> <<>>]

Event(kind, u) == [kind |-> kind, user |-> u, was |-> PendingOf(u)]

Reply(reply, voice) == [reply |-> reply, voice |-> voice]

----------------------------------------------------------------------------
(* Handlers *)

start_command(u) ==
    /\ ev' = Event("start", u)
    /\ out' = Reply("welcome", <<>>)
    /\ UNCHANGED <<user_selected_voice, awaiting_voice_upload, dirState, dirEntries>>

voice_command(u) ==
    LET voices == get_available_voices
    IN  /\ ev' = Event("voice", u)
        /\ out' = IF voices = <<>> THEN Reply("no_voices", <<>>)
                  ELSE Reply("select_menu", <<>>)
        /\ UNCHANGED <<user_selected_voice, awaiting_voice_upload, dirState, dirEntries>>

\* a mutant of newvoice_command: an invalid name cancels the pending registration
newvoice_command_cancelling(u, args) ==
    LET voice_name == sanitize_voice_name(Join(args))
    IN  /\ ev' = Event("newvoice", u)
        /\ UNCHANGED <<user_selected_voice, dirState, dirEntries>>
        /\ IF args = <<>> THEN
                /\ out' = Reply("usage", <<>>)
                /\ UNCHANGED awaiting_voice_upload
           ELSE IF voice_name = <<>> THEN
                /\ out' = Reply("invalid_name", <<>>)
                /\ awaiting_voice_upload' = Pop(awaiting_voice_upload, u)
           ELSE IF PathExists(dirState, dirEntries, voice_name) THEN
                /\ out' = Reply("name_taken", voice_name)
                /\ UNCHANGED awaiting_voice_upload
           ELSE
                /\ awaiting_voice_upload' = Put(awaiting_voice_upload, u, voice_name)
                /\ out' = Reply("prepare", voice_name)

newvoice_command(u, args) ==
    LET voice_name == sanitize_voice_name(Join(args))
    IN  /\ ev' = Event("newvoice", u)
        /\ UNCHANGED <<user_selected_voice, dirState, dirEntries>>
        /\ IF args = <<>> THEN
                /\ out' = Reply("usage", <<>>)
                /\ UNCHANGED awaiting_voice_upload
           ELSE IF Falsy(voice_name) THEN
                /\ out' = Reply("invalid_name", <<>>)
                /\ UNCHANGED awaiting_voice_upload
           ELSE IF PathExists(dirState, dirEntries, voice_name) THEN
                /\ out' = Reply("name_taken", voice_name)
                /\ UNCHANGED awaiting_voice_upload
           ELSE
                /\ awaiting_voice_upload' = Put(awaiting_voice_upload, u, voice_name)
                /\ out' = Reply("prepare", voice_name)

\* a mutant of button_handler: the selection is stored only for a listed voice
button_handler_validating(u, data) ==
    /\ ev' = Event("button", u)
    /\ UNCHANGED <<awaiting_voice_upload, dirState, dirEntries>>
    /\ IF /\ StartsWith(data, CALLBACK_PREFIX_VOICE)
          /\ SubSeq(data, Len(CALLBACK_PREFIX_VOICE) + 1, Len(data)) \in Range(get_available_voices)
       THEN
            LET voice_name == SubSeq(data, Len(CALLBACK_PREFIX_VOICE) + 1, Len(data))
            IN  /\ user_selected_voice' = Put(user_selected_voice, u, voice_name)
                /\ out' = Reply("voice_set", voice_name)
       ELSE
            /\ out' = Reply("unknown_action", <<>>)
            /\ UNCHANGED user_selected_voice

button_handler(u, data) ==
    /\ ev' = Event("button", u)
    /\ UNCHANGED <<awaiting_voice_upload, dirState, dirEntries>>
    /\ IF StartsWith(data, CALLBACK_PREFIX_VOICE) THEN
            LET voice_name == SubSeq(data, Len(CALLBACK_PREFIX_VOICE) + 1, Len(data))
            IN  /\ user_selected_voice' = Put(user_selected_voice, u, voice_name)
                /\ out' = Reply("voice_set", voice_name)
       ELSE
            /\ out' = Reply("unknown_action", <<>>)
            /\ UNCHANGED user_selected_voice

\* a mutant of ResolveVoice: the first listed voice is preferred to the selection
ResolveVoiceCatalogFirst(u) ==
    LET available_voices == get_available_voices
    IN  IF available_voices # <<>> THEN available_voices[1]
        ELSE IF u \in DOMAIN user_selected_voice /\ user_selected_voice[u] # <<>>
             THEN user_selected_voice[u]
        ELSE DEFAULT_VOICE_NAME

\* a mutant of ResolveVoice: the fallback is the last listed voice
ResolveVoiceLastListed(u) ==
    LET selected_voice ==
            IF u \in DOMAIN user_selected_voice THEN user_selected_voice[u] ELSE <<>>
        available_voices == get_available_voices
    IN  IF selected_voice # <<>> THEN selected_voice
        ELSE IF available_voices # <<>> THEN available_voices[Len(available_voices)]
        ELSE DEFAULT_VOICE_NAME

\* tbot.py:157-165: the voice a text is spoken with
ResolveVoice(u) ==
    LET selected_voice ==
            IF u \in DOMAIN user_selected_voice THEN user_selected_voice[u] ELSE <<>>
        available_voices == get_available_voices
    IN  IF ~Falsy(selected_voice) THEN selected_voice
        ELSE IF available_voices # <<>> THEN available_voices[1]
        ELSE DEFAULT_VOICE_NAME

\* a mutant of handle_text: no test for a pending registration
handle_text_unguarded(u, ttsOk) ==
    /\ ev' = [kind |-> "text", user |-> u,
              was |-> IF u \in DOMAIN awaiting_voice_upload THEN awaiting_voice_upload[u] ELSE <<>>]
    /\ UNCHANGED <<user_selected_voice, awaiting_voice_upload, dirState, dirEntries>>
    /\ out' = [reply |-> IF ttsOk THEN "voice" ELSE "tts_error",
               voice |-> IF u \in DOMAIN user_selected_voice /\ user_selected_voice[u] # <<>>
                         THEN user_selected_voice[u]
                         ELSE IF get_available_voices # <<>> THEN get_available_voices[1]
                         ELSE DEFAULT_VOICE_NAME]

\* a mutant of handle_text: a failed synthesis forgets the user's selection
handle_text_forgetting(u, ttsOk) ==
    /\ ev' = Event("text", u)
    /\ UNCHANGED <<awaiting_voice_upload, dirState, dirEntries>>
    /\ IF u \in DOMAIN awaiting_voice_upload THEN
            /\ out' = Reply("waiting_for_audio", awaiting_voice_upload[u])
            /\ UNCHANGED user_selected_voice
       ELSE IF ttsOk THEN
            /\ out' = Reply("voice", ResolveVoice(u))
            /\ UNCHANGED user_selected_voice
       ELSE
            /\ out' = Reply("tts_error", ResolveVoice(u))
            /\ user_selected_voice' = Pop(user_selected_voice, u)

\* ttsOk: whether tts and reply_voice return without raising
handle_text(u, ttsOk) ==
    /\ ev' = Event("text", u)
    /\ UNCHANGED <<user_selected_voice, awaiting_voice_upload, dirState, dirEntries>>
    /\ IF u \in DOMAIN awaiting_voice_upload THEN
            out' = Reply("waiting_for_audio", awaiting_voice_upload[u])
       ELSE IF ttsOk THEN
            out' = Reply("voice", ResolveVoice(u))
       ELSE
            out' = Reply("tts_error", ResolveVoice(u))

\* whether download_to_drive can open <voice_name>.wav for writing: the
\* directory is accessible, the name is not a directory's, and a new entry
\* still fits
CanOpenTarget(voice_name) ==
    LET i == IndexOf(dirEntries, WavFileName(voice_name))
    IN  /\ dirState # "noaccess"
        /\ IF i # 0 THEN dirEntries[i].isFile ELSE Len(dirEntries) < MaxEntries

\* a mutant of EntriesAfterWrite: the file is named after DEFAULT_VOICE_NAME
EntriesAfterWriteDefault(voice_name, pos) ==
    IF IndexOf(dirEntries, WavFileName(DEFAULT_VOICE_NAME)) # 0 THEN dirEntries
    ELSE InsertAt(dirEntries, pos, File(WavFileName(DEFAULT_VOICE_NAME)))

\* the directory after <voice_name>.wav was opened for writing: an existing
\* file keeps its place, a new one appears anywhere in the enumeration order
EntriesAfterWrite(voice_name, pos) ==
    IF IndexOf(dirEntries, WavFileName(voice_name)) # 0 THEN dirEntries
    ELSE InsertAt(dirEntries, pos, File(WavFileName(voice_name)))

\* tbot.py:206-222: the try block
SaveVoice(voice_name, io) ==
    CASE io = "ok" ->
            /\ CanOpenTarget(voice_name)
            /\ dirState' = Mkdir(dirState)
            /\ \E pos \in 1..(Len(dirEntries) + 1) :
                    dirEntries' = EntriesAfterWrite(voice_name, pos)
            /\ out' = Reply("added", voice_name)
      [] io = "get_file_error" ->
            /\ UNCHANGED <<dirState, dirEntries>>
            /\ out' = Reply("save_error", voice_name)
      [] io = "download_error" ->
            /\ dirState' = Mkdir(dirState)
            /\ UNCHANGED dirEntries
            /\ out' = Reply("save_error", voice_name)
      [] io = "write_error" ->
            /\ CanOpenTarget(voice_name)
            /\ dirState' = Mkdir(dirState)
            /\ \E pos \in 1..(Len(dirEntries) + 1) :
                    dirEntries' = EntriesAfterWrite(voice_name, pos)
            /\ out' = Reply("save_error", voice_name)

\* a mutant of handle_audio: pop(user_id, DEFAULT_VOICE_NAME) and no test before it
handle_audio_unguarded(u, mime, io) ==
    /\ ev' = Event("audio", u)
    /\ UNCHANGED user_selected_voice
    /\ awaiting_voice_upload' = Pop(awaiting_voice_upload, u)
    /\ SaveVoice(IF u \in DOMAIN awaiting_voice_upload THEN awaiting_voice_upload[u]
                 ELSE DEFAULT_VOICE_NAME, io)

\* a mutant of handle_audio: the rejection of tbot.py:202-204 switched on
handle_audio_rejecting(u, mime, io) ==
    /\ ev' = Event("audio", u)
    /\ UNCHANGED user_selected_voice
    /\ IF u \notin DOMAIN awaiting_voice_upload THEN
            /\ out' = Reply("use_newvoice_first", <<>>)
            /\ UNCHANGED <<awaiting_voice_upload, dirState, dirEntries>>
       ELSE IF mime \notin {"absent", "audio/wav"} THEN
            /\ out' = Reply("send_wav", <<>>)
            /\ UNCHANGED <<awaiting_voice_upload, dirState, dirEntries>>
       ELSE
            /\ awaiting_voice_upload' = Pop(awaiting_voice_upload, u)
            /\ SaveVoice(awaiting_voice_upload[u], io)

\* The handler is registered for filters.VOICE | filters.AUDIO (tbot.py:255), so
\* update.message.voice or update.message.audio is always there and the branch
\* of tbot.py:193-196 is never taken.
handle_audio(u, mime, io) ==
    /\ ev' = Event("audio", u)
    /\ UNCHANGED user_selected_voice
    /\ IF u \notin DOMAIN awaiting_voice_upload THEN
            /\ out' = Reply("use_newvoice_first", <<>>)
            /\ UNCHANGED <<awaiting_voice_upload, dirState, dirEntries>>
       ELSE
            LET voice_name == awaiting_voice_upload[u]
            IN  /\ awaiting_voice_upload' = Pop(awaiting_voice_upload, u)
                \* a document of another MIME type is logged and processed anyway
                /\ SaveVoice(voice_name, io)

----------------------------------------------------------------------------

StartEvent == \E u \in Users : start_command(u) /\ UNCHANGED aux

VoiceEvent == \E u \in Users : voice_command(u) /\ UNCHANGED aux

NewvoiceEvent ==
    \E u \in Users, args \in ArgLists : newvoice_command(u, args) /\ UNCHANGED aux

ButtonEvent ==
    \E u \in Users, data \in ButtonData : button_handler(u, data) /\ UNCHANGED aux

TextEvent == \E u \in Users, ttsOk \in BOOLEAN : handle_text(u, ttsOk) /\ UNCHANGED aux

AudioEvent ==
    \E u \in Users, mime \in MimeTypes, io \in IoOutcomes :
        handle_audio(u, mime, io) /\ UNCHANGED aux

Next ==
    \/ StartEvent
    \/ VoiceEvent
    \/ NewvoiceEvent
    \/ ButtonEvent
    \/ TextEvent
    \/ AudioEvent

Spec == Init /\ [][Next]_vars

\* ---------------------------------------------------------------------------
\* sanitize_voice_name as a function of its argument

\* length up to which every argument over SanChars is drawn
MaxSanLen == 2

\* a lower-case and an upper-case letter, a digit, the two kept punctuation
\* marks, three characters re.sub removes, and a letter outside ASCII
SanChars == {"a", "Z", "7", "_", "-", "!", " ", ".", "U+00E9"}

RECURSIVE SeqsUpTo(_, _)
\* the sequences over S of length at most n
SeqsUpTo(S, n) ==
    IF n = 0 THEN {<<>>}
    ELSE LET shorter == SeqsUpTo(S, n - 1)
         IN  shorter \cup {Append(q, c) : q \in {r \in shorter : Len(r) = n - 1}, c \in S}

\* arguments longer than the limit: 51 kept characters, and 52 kept ones among
\* removed ones
LongInputs ==
    { LongToken,
      <<"!", "U+00E9">> \o LongToken \o <<" ">> }

SanInputs == SeqsUpTo(SanChars, MaxSanLen) \cup LongInputs

InitSanitize ==
    /\ san \in {[input |-> i, done |-> FALSE, result |-> <<>>] : i \in SanInputs}
    /\ tasks = [t \in Tasks |-> NewTask]
    /\ regs = [u \in Users |-> 0]
    /\ user_selected_voice = EmptyDict
    /\ awaiting_voice_upload = EmptyDict
    /\ dirState = "ok"
    /\ dirEntries = <<>>
    /\ ev = [kind |-> "none", user |-> "none", was |-> <<>>]
    /\ out = [reply |-> "none", voice |-> <<>>]

\* the call returns
Sanitize ==
    /\ ~san.done
    /\ san' = [san EXCEPT !.done = TRUE, !.result = sanitize_voice_name(san.input)]
    /\ UNCHANGED <<user_selected_voice, awaiting_voice_upload, dirState, dirEntries,
                   ev, out, tasks, regs>>

SpecSanitize == InitSanitize /\ [][Sanitize]_vars

\* ---------------------------------------------------------------------------
\* handle_audio as coroutines that the event loop interleaves at their awaits
\* (Application with concurrent_updates; the build of main() handles one
\* update at a time, which is the interleaving where each task runs to its end)

\* registrations per user in one behaviour
MaxRegs == 2

\* context.args of the /newvoice updates sent while uploads are in flight
ConcArgLists == { << <<"a">> >>, << <<"b">> >> }

\* the bot starts with an empty voice directory, or with none
InitConc ==
    /\ san = NoSan
    /\ tasks = [t \in Tasks |-> NewTask]
    /\ regs = [u \in Users |-> 0]
    /\ user_selected_voice = EmptyDict
    /\ awaiting_voice_upload = EmptyDict
    /\ dirState \in {"ok", "missing"}
    /\ dirEntries = <<>>
    /\ ev = [kind |-> "none", user |-> "none", was |-> <<>>]
    /\ out = [reply |-> "none", voice |-> <<>>]

\* /newvoice: no await comes before the assignment of tbot.py:117
Register ==
    \E u \in Users, args \in ConcArgLists :
        /\ regs[u] < MaxRegs
        /\ newvoice_command(u, args)
        /\ regs' = IF u \in DOMAIN awaiting_voice_upload'
                       /\ awaiting_voice_upload' # awaiting_voice_upload
                    THEN [regs EXCEPT ![u] = @ + 1]
                    ELSE regs
        /\ UNCHANGED <<san, tasks>>

\* a mutant of AudioBegin: the name is read with [] and stays in the dict
AudioBeginPeeking(t, u) ==
    /\ tasks[t].pc = "new"
    /\ IF u \notin DOMAIN awaiting_voice_upload THEN
            tasks' = [tasks EXCEPT ![t] = [NewTask EXCEPT !.user = u, !.pc = "rejecting", !.seen = regs[u]]]
       ELSE
            tasks' = [tasks EXCEPT ![t] =
                        [NewTask EXCEPT !.user = u, !.pc = "get_file", !.popped = TRUE,
                                  !.seen = regs[u],
                                        !.voice_name = awaiting_voice_upload[u]]]
    /\ UNCHANGED <<awaiting_voice_upload, user_selected_voice, dirState, dirEntries,
                   ev, out, san, regs>>

\* from the start of the coroutine to its first await: the membership test and
\* the pop, then either the reply of the rejection or get_file
AudioBegin(t, u) ==
    /\ tasks[t].pc = "new"
    /\ IF u \notin DOMAIN awaiting_voice_upload THEN
            /\ tasks' = [tasks EXCEPT ![t] = [NewTask EXCEPT !.user = u, !.pc = "rejecting", !.seen = regs[u]]]
            /\ UNCHANGED awaiting_voice_upload
       ELSE
            /\ awaiting_voice_upload' = Pop(awaiting_voice_upload, u)
            /\ tasks' = [tasks EXCEPT ![t] =
                            [NewTask EXCEPT !.user = u, !.pc = "get_file", !.popped = TRUE,
                                  !.seen = regs[u],
                                            !.voice_name = awaiting_voice_upload[u]]]
    /\ UNCHANGED <<user_selected_voice, dirState, dirEntries, ev, out, san, regs>>

\* get_file returns or raises; on return the coroutine runs mkdir and
\* suspends again in download_to_drive
AudioGetFile(t, ok) ==
    /\ tasks[t].pc = "get_file"
    /\ IF ok THEN
            /\ dirState' = Mkdir(dirState)
            /\ tasks' = [tasks EXCEPT ![t].pc = "download"]
       ELSE
            /\ tasks' = [tasks EXCEPT ![t].pc = "failing"]
            /\ UNCHANGED dirState
    /\ UNCHANGED <<user_selected_voice, awaiting_voice_upload, dirEntries, ev, out, san, regs>>

\* download_to_drive returns or raises; the file may have been opened already
\* when it raises
AudioDownload(t, io) ==
    /\ tasks[t].pc = "download"
    /\ CASE io = "ok" ->
                /\ CanOpenTarget(tasks[t].voice_name)
                /\ \E pos \in 1..(Len(dirEntries) + 1) :
                        dirEntries' = EntriesAfterWrite(tasks[t].voice_name, pos)
                /\ tasks' = [tasks EXCEPT ![t].pc = "replying"]
         [] io = "download_error" ->
                /\ UNCHANGED dirEntries
                /\ tasks' = [tasks EXCEPT ![t].pc = "failing"]
         [] io = "write_error" ->
                /\ CanOpenTarget(tasks[t].voice_name)
                /\ \E pos \in 1..(Len(dirEntries) + 1) :
                        dirEntries' = EntriesAfterWrite(tasks[t].voice_name, pos)
                /\ tasks' = [tasks EXCEPT ![t].pc = "failing"]
    /\ UNCHANGED <<user_selected_voice, awaiting_voice_upload, dirState, ev, out, san, regs>>

\* the reply_text the coroutine is suspended in returns, and the coroutine ends
AudioFinish(t) ==
    /\ tasks[t].pc \in {"rejecting", "replying", "failing"}
    /\ tasks' = [tasks EXCEPT ![t].pc = "done",
                              ![t].reply = CASE tasks[t].pc = "rejecting" -> "use_newvoice_first"
                                             [] tasks[t].pc = "replying" -> "added"
                                             [] tasks[t].pc = "failing" -> "save_error"]
    /\ UNCHANGED <<user_selected_voice, awaiting_voice_upload, dirState, dirEntries,
                   ev, out, san, regs>>

BeginStep == \E t \in Tasks, u \in Users : AudioBegin(t, u)

GetFileStep == \E t \in Tasks, ok \in BOOLEAN : AudioGetFile(t, ok)

DownloadStep ==
    \E t \in Tasks, io \in {"ok", "download_error", "write_error"} : AudioDownload(t, io)

FinishStep == \E t \in Tasks : AudioFinish(t)

NextConc ==
    \/ Register
    \/ BeginStep
    \/ GetFileStep
    \/ DownloadStep
    \/ FinishStep

SpecConc == InitConc /\ [][NextConc]_vars

----------------------------------------------------------------------------
(* Properties.  A step is told apart by the update it handled (ev') and the
   reply it sent (out'); the inputs of a step are bound by asking which
   handler call the step is. *)

Voices == get_available_voices

\* the catalog listing in the state a step leads to
VoicesAfter == ListVoices(dirState', dirEntries')

Pending == awaiting_voice_upload

Selected == user_selected_voice

IsStepOf(kind, u) == ev'.kind = kind /\ ev'.user = u

Synthesized(o) == o.reply \in {"voice", "tts_error"}

DirUnchanged == dirState' = dirState /\ dirEntries' = dirEntries

FetchFailures == {"get_file_error", "download_error"}

Failures == IoOutcomes \ {"ok"}

C2_RegisterThenUpload ==
    [][\A u \in Users :
        /\ \A args \in ArgLists :
             (IsStepOf("newvoice", u) /\ newvoice_command(u, args) /\ out'.reply = "prepare")
             => /\ u \in DOMAIN Pending'
                /\ Pending'[u] = sanitize_voice_name(Join(args))
        /\ (u \in DOMAIN Pending /\ ~IsStepOf("newvoice", u) /\ ~IsStepOf("audio", u))
             => u \in DOMAIN Pending' /\ Pending'[u] = Pending[u]
        /\ (IsStepOf("audio", u) /\ u \in DOMAIN Pending /\ out'.reply = "added")
             => /\ Pending[u] \in Range(VoicesAfter)
                /\ u \notin DOMAIN Pending'
        /\ \A mime \in MimeTypes :
             (IsStepOf("audio", u) /\ u \in DOMAIN Pending /\ handle_audio(u, mime, "ok"))
             => out'.reply = "added"]_vars

\* an upload was written: the name the user was pending for is listed, the user is idle
C2_Witness ==
    /\ ev.kind = "audio"
    /\ out.reply = "added"
    /\ ev.was # <<>>
    /\ ev.was \in Range(Voices)
    /\ ev.user \notin DOMAIN Pending

\* C3: a register whose sanitized name is one the catalog listing returns is
\* rejected as already taken and leaves the pending map as it was.
C3_CollidingNameRejected ==
    [][\A u \in Users, args \in ArgLists :
        (/\ IsStepOf("newvoice", u)
         /\ newvoice_command(u, args)
         /\ sanitize_voice_name(Join(args)) \in Range(Voices))
        => /\ out'.reply = "name_taken"
           /\ Pending' = Pending]_vars

\* C4: a register with a name whose sanitized form is empty is rejected as an
\* invalid name and leaves the pending map as it was.
C4_EmptyNameRejected ==
    [][\A u \in Users, args \in ArgLists :
        (/\ IsStepOf("newvoice", u)
         /\ newvoice_command(u, args)
         /\ args # <<>>
         /\ sanitize_voice_name(Join(args)) = <<>>)
        => /\ out'.reply = "invalid_name"
           /\ Pending' = Pending]_vars

\* an invalid name was rejected while the user was pending, and the pending name is kept
C4_Witness ==
    /\ ev.kind = "newvoice"
    /\ out.reply = "invalid_name"
    /\ ev.was # <<>>
    /\ ev.user \in DOMAIN Pending
    /\ Pending[ev.user] = ev.was

\* C5 as the spec states it: the text of a user who has a selection entry and
\* is not awaiting an upload is synthesized with exactly the stored string,
\* whatever it is.
C5_AnySelectionWins ==
    [][\A u \in Users :
        (IsStepOf("text", u) /\ u \notin DOMAIN Pending /\ u \in DOMAIN Selected)
        => /\ Synthesized(out')
           /\ out'.voice = Selected[u]]_vars

\* C5 amended: the text of a user who has a non-empty selection entry and is not
\* awaiting an upload is synthesized with exactly the stored string, whatever
\* the catalog holds; an empty stored string is treated as no selection (first
\* listed voice, else the default name).
C5_NonEmptySelectionWins ==
    [][\A u \in Users :
        (IsStepOf("text", u) /\ u \notin DOMAIN Pending /\ u \in DOMAIN Selected)
        => /\ Synthesized(out')
           /\ Selected[u] # <<>> => out'.voice = Selected[u]
           /\ Selected[u] = <<>> =>
                out'.voice = IF Voices # <<>> THEN Voices[1]
                             ELSE <<"d", "e", "f", "a", "u", "l", "t">>]_vars

\* a text was spoken with the selected voice although the catalog lists only others
C5_Witness ==
    /\ ev.kind = "text"
    /\ out.reply = "voice"
    /\ ev.user \in DOMAIN Selected
    /\ out.voice = Selected[ev.user]
    /\ Voices # <<>>
    /\ out.voice \notin Range(Voices)

\* C6: the text of a user with no selection entry who is not awaiting an upload
\* is synthesized with the first name of the catalog listing, and with
\* "default" when the listing is empty.
C6_FallbackVoice ==
    [][\A u \in Users :
        (IsStepOf("text", u) /\ u \notin DOMAIN Pending /\ u \notin DOMAIN Selected)
        => /\ Synthesized(out')
           /\ out'.voice = IF Voices # <<>> THEN Voices[1]
                           ELSE <<"d", "e", "f", "a", "u", "l", "t">>]_vars

\* a text was spoken with the first of two different listed voices
C6_Witness ==
    /\ ev.kind = "text"
    /\ out.reply = "voice"
    /\ ev.user \notin DOMAIN Selected
    /\ Len(Voices) >= 2
    /\ Voices[1] # Voices[2]
    /\ out.voice = Voices[1]

\* C7: a text event of a user awaiting an upload is answered with "audio is
\* expected", is not synthesized, and changes neither map nor the directory.
C7_TextWhilePending ==
    [][\A u \in Users :
        (IsStepOf("text", u) /\ u \in DOMAIN Pending)
        => /\ out'.reply = "waiting_for_audio"
           /\ ~Synthesized(out')
           /\ Pending' = Pending
           /\ Selected' = Selected
           /\ DirUnchanged]_vars

\* a pending user who has a voice selected sent text and was told to send audio
C7_Witness ==
    /\ ev.kind = "text"
    /\ out.reply = "waiting_for_audio"
    /\ ev.user \in DOMAIN Pending
    /\ ev.user \in DOMAIN Selected
    /\ Selected[ev.user] # <<>>

\* C8: an audio event of a user with no pending registration is answered with
\* "use /newvoice first" and changes neither map nor the directory.
C8_AudioWhileIdle ==
    [][\A u \in Users :
        (IsStepOf("audio", u) /\ u \notin DOMAIN Pending)
        => /\ out'.reply = "use_newvoice_first"
           /\ Pending' = Pending
           /\ Selected' = Selected
           /\ DirUnchanged]_vars

\* an idle user's audio was rejected while another user was pending
C8_Witness ==
    /\ ev.kind = "audio"
    /\ out.reply = "use_newvoice_first"
    /\ ev.user \notin DOMAIN Pending
    /\ DOMAIN Pending # {}

\* C9: a valid register (a name that sanitizes to a non-empty name with no
\* <name>.wav in the directory) by a user already pending replaces that user's
\* pending name by the sanitized new one, leaves the other users' entries and
\* the directory alone, and the map holds one name per user.
C9_RegisterOverwrites ==
    [][\A u \in Users, args \in ArgLists :
        LET name == sanitize_voice_name(Join(args))
        IN  (/\ IsStepOf("newvoice", u)
             /\ newvoice_command(u, args)
             /\ u \in DOMAIN Pending
             /\ name # <<>>
             /\ ~PathExists(dirState, dirEntries, name))
            => /\ out'.reply = "prepare"
               /\ DOMAIN Pending' = DOMAIN Pending
               /\ Pending' = [Pending EXCEPT ![u] = name]
               /\ DirUnchanged]_vars

\* a pending user registered another name and is now pending for the new one
C9_Witness ==
    /\ ev.kind = "newvoice"
    /\ out.reply = "prepare"
    /\ ev.was # <<>>
    /\ ev.user \in DOMAIN Pending
    /\ Pending[ev.user] = out.voice
    /\ Pending[ev.user] # ev.was

\* C10: a selection stores the chosen name for that user whether the catalog
\* lists it or not, leaves the other users' selections, the pending map and the
\* directory alone; and no step removes a selection entry.
C10_SelectFrame ==
    [][/\ \A u \in Users, data \in ButtonData :
            (/\ IsStepOf("button", u)
             /\ button_handler(u, data)
             /\ StartsWith(data, CALLBACK_PREFIX_VOICE))
            => /\ u \in DOMAIN Selected'
               /\ Selected'[u] = SubSeq(data, Len(CALLBACK_PREFIX_VOICE) + 1, Len(data))
               /\ DOMAIN Selected' = DOMAIN Selected \cup {u}
               /\ \A v \in DOMAIN Selected \ {u} : Selected'[v] = Selected[v]
               /\ Pending' = Pending
               /\ DirUnchanged
       /\ DOMAIN Selected \subseteq DOMAIN Selected']_vars

\* a user selected a voice the catalog does not list, while another user has a
\* selection and a registration is pending
C10_Witness ==
    /\ ev.kind = "button"
    /\ out.reply = "voice_set"
    /\ out.voice # <<>>
    /\ Selected[ev.user] = out.voice
    /\ out.voice \notin Range(Voices)
    /\ \E v \in DOMAIN Selected : v # ev.user
    /\ DOMAIN Pending # {}

\* C11: when tts or reply_voice raises during a text event, the handler ends
\* with the could-not-generate reply (nothing is raised to the dispatcher) and
\* both maps are as before the event.
C11_SynthesisFailureCaught ==
    [][\A u \in Users :
        (IsStepOf("text", u) /\ u \notin DOMAIN Pending /\ handle_text(u, FALSE))
        => /\ out'.reply = "tts_error"
           /\ Selected' = Selected
           /\ Pending' = Pending]_vars

\* a synthesis failed for a user who has a voice selected, and the selection is still there
C11_Witness ==
    /\ ev.kind = "text"
    /\ out.reply = "tts_error"
    /\ ev.user \in DOMAIN Selected
    /\ Selected[ev.user] # <<>>
    /\ out.voice = Selected[ev.user]
    /\ DOMAIN Pending # {}

\* the eight spellings of the suffix .wav
WavSuffixes ==
    {<<".", w, a, v>> : w \in {"w", "W"}, a \in {"a", "A"}, v \in {"v", "V"}}

\* the part of a file name after its last four characters
LastFour(name) == SubSeq(name, Len(name) - 3, Len(name))

\* a regular file whose name is a non-empty stem followed by a spelling of .wav
IsWavEntry(e) == e.isFile /\ Len(e.name) > 4 /\ LastFour(e.name) \in WavSuffixes

\* C13: the listing of a readable voice directory is, entry by entry, the names
\* of its regular files that end in .wav in any spelling, without that suffix;
\* and in every state each listed name is the stem of such a file, so that no
\* subdirectory and no file of another suffix is listed.
C13_ListingIsWavStems ==
    /\ dirState = "ok" =>
        LET fs == SelectSeq(dirEntries, IsWavEntry)
        IN  Voices = [i \in 1..Len(fs) |-> SubSeq(fs[i].name, 1, Len(fs[i].name) - 4)]
    /\ \A i \in 1..Len(Voices) :
        \E e \in Range(dirEntries) :
            /\ IsWavEntry(e)
            /\ SubSeq(e.name, 1, Len(e.name) - 4) = Voices[i]

\* a directory with an upper-case .WAV file and a new voice beside it, both listed
C13_Witness ==
    /\ dirState = "ok"
    /\ Len(Voices) = 2
    /\ \E e \in Range(dirEntries) : e.isFile /\ LastFour(e.name) = <<".", "W", "A", "V">>
    /\ \E e \in Range(dirEntries) : e.isFile /\ LastFour(e.name) = DotWav

C15_MimeTypeIgnored ==
    [][\A u \in Users :
        (IsStepOf("audio", u) /\ u \in DOMAIN Pending) =>
            \A io \in IoOutcomes :
                (\E mime \in MimeTypes : handle_audio(u, mime, io))
                => /\ \A other \in MimeTypes : handle_audio(u, other, io)
                   /\ io = "ok" => out'.reply = "added"]_vars

\* an upload was accepted into a directory that already held an entry
C15_Witness ==
    /\ ev.kind = "audio"
    /\ out.reply = "added"
    /\ ev.was = out.voice
    /\ Len(dirEntries) = 2
    /\ ev.user \notin DOMAIN Pending

\* C17: an upload never writes to a name that already has a file in the
\* directory: whenever an audio event of a pending user opens <name>.wav, no
\* entry of that name was there before.
C17_NoOverwrite ==
    [][\A u \in Users :
        (/\ IsStepOf("audio", u)
         /\ u \in DOMAIN Pending
         /\ out'.reply = "added")
        => ~PathExists(dirState, dirEntries, Pending[u])]_vars

NameChars ==
    AsciiLower \cup AsciiUpper \cup AsciiDigits \cup UnicodeWord \cup {"_", "-"}

IsValidName(name) ==
    /\ Len(name) >= 1
    /\ Len(name) <= 50
    /\ \A i \in 1..Len(name) : name[i] \in NameChars

\* C19: every name in the pending map is non-empty, at most 50 characters long
\* and made of letters, digits, underscores and hyphens, and so is the stem
\* of the file an upload has just written.
C19_PendingNamesValid ==
    /\ \A u \in DOMAIN Pending : IsValidName(Pending[u])
    /\ (ev.kind = "audio" /\ out.reply \in {"added", "save_error"}) =>
            IsValidName(out.voice)
    /\ (ev.kind = "audio" /\ out.reply = "added") =>
            \E e \in Range(dirEntries) :
                /\ e.isFile
                /\ e.name = out.voice \o DotWav
                /\ IsValidName(Stem(e.name))

\* a name of exactly 50 characters is pending
C19_Witness ==
    \E u \in DOMAIN Pending : Len(Pending[u]) = 50

\* C20: the directory changes only in an audio event of a user who has a
\* pending name, and then it gains at most the file <that name>.wav and loses
\* nothing; and a step of one user changes no other user's pending or
\* selection entry.
C20_Frame ==
    [][/\ ~DirUnchanged =>
            \E u \in DOMAIN Pending :
                /\ IsStepOf("audio", u)
                /\ Range(dirEntries) \subseteq Range(dirEntries')
                /\ Range(dirEntries') \subseteq
                        Range(dirEntries) \cup {[name |-> Pending[u] \o DotWav, isFile |-> TRUE]}
       /\ \A v \in Users :
            ev'.user # v =>
                /\ v \in DOMAIN Pending <=> v \in DOMAIN Pending'
                /\ v \in DOMAIN Pending => Pending'[v] = Pending[v]
                /\ v \in DOMAIN Selected <=> v \in DOMAIN Selected'
                /\ v \in DOMAIN Selected => Selected'[v] = Selected[v]]_vars

\* an upload added a file while the other user has a pending name and a selection
C20_Witness ==
    /\ ev.kind = "audio"
    /\ out.reply = "added"
    /\ [name |-> out.voice \o DotWav, isFile |-> TRUE] \in Range(dirEntries)
    /\ \E v \in Users : v # ev.user /\ v \in DOMAIN Pending /\ v \in DOMAIN Selected

\* ASCII letters, ASCII digits, the underscore and the hyphen
AsciiNameChars ==
    {"a", "b", "c", "d", "e", "f", "g", "h", "i", "j", "k", "l", "m",
     "n", "o", "p", "q", "r", "s", "t", "u", "v", "w", "x", "y", "z",
     "A", "B", "V", "W", "Z",
     "0", "1", "2", "3", "4", "5", "6", "7", "8", "9", "_", "-"}

RECURSIVE WithoutCharsNotIn(_, _)
\* s with every character removed that is not in allowed, in the original order
WithoutCharsNotIn(s, allowed) ==
    IF s = <<>> THEN <<>>
    ELSE (IF Head(s) \in allowed THEN <<Head(s)>> ELSE <<>>)
            \o WithoutCharsNotIn(Tail(s), allowed)

\* the first 50 characters of s
FirstFifty(s) == [i \in 1..(IF Len(s) > 50 THEN 50 ELSE Len(s)) |-> s[i]]

\* C12 as stated: sanitize_voice_name returns its argument without the
\* characters that are not an ASCII letter, an ASCII digit, an underscore or a
\* hyphen, in the original order, cut to its first 50 characters.
C12_AsciiOnly ==
    san.done => san.result = FirstFifty(WithoutCharsNotIn(san.input, AsciiNameChars))

\* C12 amended: sanitize_voice_name returns its argument without the
\* characters that are not a letter or digit of any script, an underscore or a
\* hyphen, in the original order, cut to its first 50 characters.
C12_UnicodeWordChars ==
    san.done =>
        san.result = FirstFifty(WithoutCharsNotIn(san.input, AsciiNameChars \cup {"U+00E9"}))

\* an argument with removed characters and a non-ASCII letter was cut to 50
\* characters, the non-ASCII letter among them
C12_Witness ==
    /\ san.done
    /\ Len(san.input) > 50
    /\ "!" \in Range(san.input)
    /\ Len(san.result) = 50
    /\ san.result[1] = "U+00E9"

\* the tasks of user u that took a pending name out of the dict
Consumers(u) == {t \in Tasks : tasks[t].user = u /\ tasks[t].popped}

\* C16: a pending registration is consumed at most once: the handle_audio
\* tasks of a user that popped a name are never more than the names stored for
\* that user, however the tasks interleave; a started task that popped none
\* is rejected with "use /newvoice first" and never starts a write.
C16_ConsumedAtMostOnce ==
    /\ \A u \in Users : Cardinality(Consumers(u)) <= regs[u]
    /\ \A t \in Tasks :
        (tasks[t].pc # "new" /\ ~tasks[t].popped) =>
            /\ tasks[t].pc \in {"rejecting", "done"}
            /\ tasks[t].pc = "done" => tasks[t].reply = "use_newvoice_first"
            /\ tasks[t].voice_name = <<>>

\* a user registered once; one task is suspended in download_to_drive with
\* the name, and a second task of the same user, started meanwhile, was rejected
C16_Witness ==
    \E u \in Users, t1 \in Tasks, t2 \in Tasks :
        /\ regs[u] = 1
        /\ tasks[t1].user = u /\ tasks[t1].pc = "download" /\ tasks[t1].popped
        /\ tasks[t2].user = u /\ tasks[t2].pc = "done" /\ tasks[t2].seen = 1
        /\ tasks[t2].reply = "use_newvoice_first"

====
